---- MODULE Spec2Model ----
(***************************************************************************)
(* Model of src/cursor/cur_backup_incr.c: the allocation-list merge        *)
(* (__alloc_merge), the incremental backup cursor's next method            *)
(* (__curbackup_incr_next) and its teardown (__wt_curbackup_free_incr).    *)
(***************************************************************************)
EXTENDS Integers, Sequences, FiniteSets, TLC

VARIABLES
    ma, mb, mres, mdone,   \* the merge on its own: its two inputs, its output
    ckptlist,              \* the checkpoint list __wt_meta_ckptlist_get has handed
                           \* out for cb->incr_file, <<>> before it was first read
    cb,                    \* the WT_CURSOR_BACKUP fields the file uses
    cursor,                \* the WT_CURSOR part: key, RAW flag, KEY_EXT/VALUE_EXT flags
    heap,                  \* every buffer __wt_calloc_def has returned
    ckpt_live,             \* checkpoint list snapshots obtained and not yet freed
    ub,                    \* an access outside a buffer has happened
    closed,                \* the cursor was torn down
    last                   \* what the latest call of cursor->next did

mvars == <<ma, mb, mres, mdone>>
cvars == <<ckptlist, cb, cursor, heap, ckpt_live, ub, closed, last>>
vars == <<ma, mb, mres, mdone, ckptlist, cb, cursor, heap, ckpt_live, ub, closed, last>>

\* ---------------------------------------------------------------- bounds
\* interval lists given to the merge live in the byte positions 0..MaxPos-1
MaxPos == 5
\* an interval list given to the merge has at most MaxEntries entries
MaxEntries == 3

\* a checkpoint's allocation list lives in the byte positions 0..CkptMaxPos-1
CkptMaxPos == 2
\* the allocation lists of the checkpoints of the file have at most
\* MaxChainEntries entries together
MaxChainEntries == 2
\* the checkpoint list of the file has at most MaxCkpts checkpoints
MaxCkpts == 3
\* the granularity inherited from the backup cursor is in 1..MaxGran
MaxGran == 2
\* the file size reported is in 1..MaxFileSize
MaxFileSize == 2
\* cursor->next is called at most MaxCalls times
MaxCalls == 4
\* at most MaxFaults calls of a collaborator (file size, checkpoint metadata,
\* allocation) fail
MaxFaults == 1
\* stands for 2^64, the number of values of a uint64_t; every count and
\* offset of the model stays far below it
U64Range == 1048576

\* ------------------------------------------------------------- constants
WT_BACKUP_INCR_COMPONENTS == 3
WT_BACKUP_RANGE == "RANGE"
WT_BACKUP_FILE == "FILE"

\* ------------------------------------------------------------ __alloc_merge
\* One stride of an allocation list: a[0] is the offset, a[1] the length.
Intervals(n) == {[off |-> o, len |-> l] : o \in 0..(n - 1), l \in 1..n}

\* The lists of at most k intervals inside 0..n-1, sorted ascending by offset
\* and internally non-overlapping (entries may touch).
SortedLists(n, k) ==
    UNION {{s \in [1..m -> {e \in Intervals(n) : e.off + e.len <= n}] :
               \A i \in 1..(m - 1) : s[i].off + s[i].len <= s[i + 1].off} : m \in 0..k}

RangeEntry(o, l) == [off |-> o, len |-> l, kind |-> WT_BACKUP_RANGE]

\* AllocMergeLoop that, when it fuses, advances only the input the entry
\* started from.
RECURSIVE AllocMergeLoop_KeepsOther(_, _, _)
AllocMergeLoop_KeepsOther(a, b, res) ==
    IF Len(a) = 0 /\ Len(b) = 0 THEN res
    ELSE IF Len(a) > 0 /\ Len(b) > 0 THEN
        IF a[1].off <= b[1].off THEN
            IF a[1].off + a[1].len < b[1].off
            THEN AllocMergeLoop_KeepsOther(Tail(a), b,
                     Append(res, RangeEntry(a[1].off, a[1].len)))
            ELSE AllocMergeLoop_KeepsOther(Tail(a), b,
                     Append(res, RangeEntry(a[1].off, (b[1].off + b[1].len) - a[1].off)))
        ELSE
            IF b[1].off + b[1].len < a[1].off
            THEN AllocMergeLoop_KeepsOther(a, Tail(b),
                     Append(res, RangeEntry(b[1].off, b[1].len)))
            ELSE AllocMergeLoop_KeepsOther(a, Tail(b),
                     Append(res, RangeEntry(b[1].off, (a[1].off + a[1].len) - b[1].off)))
    ELSE IF Len(a) > 0
    THEN AllocMergeLoop_KeepsOther(Tail(a), b, Append(res, RangeEntry(a[1].off, a[1].len)))
    ELSE AllocMergeLoop_KeepsOther(a, Tail(b), Append(res, RangeEntry(b[1].off, b[1].len)))

\* The loop of __alloc_merge: a and b are what is left of the two inputs, res
\* the entries written so far.
RECURSIVE AllocMergeLoop(_, _, _)
AllocMergeLoop(a, b, res) ==
    IF Len(a) = 0 /\ Len(b) = 0 THEN res
    ELSE IF Len(a) > 0 /\ Len(b) > 0 THEN
        IF a[1].off <= b[1].off THEN
            IF a[1].off + a[1].len < b[1].off
            THEN AllocMergeLoop(Tail(a), b, Append(res, RangeEntry(a[1].off, a[1].len)))
            ELSE AllocMergeLoop(Tail(a), Tail(b),
                     Append(res, RangeEntry(a[1].off, (b[1].off + b[1].len) - a[1].off)))
        ELSE
            IF b[1].off + b[1].len < a[1].off
            THEN AllocMergeLoop(a, Tail(b), Append(res, RangeEntry(b[1].off, b[1].len)))
            ELSE AllocMergeLoop(Tail(a), Tail(b),
                     Append(res, RangeEntry(b[1].off, (a[1].off + a[1].len) - b[1].off)))
    ELSE IF Len(a) > 0
    THEN AllocMergeLoop(Tail(a), b, Append(res, RangeEntry(a[1].off, a[1].len)))
    ELSE AllocMergeLoop(a, Tail(b), Append(res, RangeEntry(b[1].off, b[1].len)))

\* __alloc_merge(a, a_cnt, b, b_cnt, res, &res_cnt): the entries written to res.
alloc_merge(a, b) == AllocMergeLoop(a, b, <<>>)

\* ------------------------------------------------- the merge on its own
MergeInit ==
    /\ ma \in SortedLists(MaxPos, MaxEntries)
    /\ mb \in SortedLists(MaxPos, MaxEntries)
    /\ mres = <<>>
    /\ mdone = FALSE
    /\ ckptlist = <<>>
    /\ cb = [incr_init |-> FALSE]
    /\ cursor = [raw |-> FALSE]
    /\ heap = <<>>
    /\ ckpt_live = 0
    /\ ub = FALSE
    /\ closed = FALSE
    /\ last = [ncalls |-> 0]

MergeCall ==
    /\ ~mdone
    /\ mres' = alloc_merge(ma, mb)
    /\ mdone' = TRUE
    /\ UNCHANGED <<ma, mb>>
    /\ UNCHANGED cvars

MergeNext == MergeCall

MergeSpec == MergeInit /\ [][MergeNext]_vars

\* ------------------------------------------------------------ the heap
NULL == 0

\* __wt_calloc_def zero-fills: a stride of zeroes is neither FILE nor RANGE.
ZeroEntry == [off |-> 0, len |-> 0, kind |-> "ZERO"]

\* A buffer of cap strides of WT_BACKUP_INCR_COMPONENTS uint64_t each.
NewBuf(cap) == [cap |-> cap, data |-> [i \in 1..cap |-> ZeroEntry], frees |-> 0]

\* __wt_free(session, p): nothing for NULL, else the buffer is given back; what
\* it held is gone, frees counts how often it was given back.
wt_free(h, p) ==
    IF p = NULL THEN h ELSE [h EXCEPT ![p].frees = @ + 1, ![p].data = <<>>, ![p].cap = 0]

\* uint64_t subtraction
U64Sub(x, y) == (x - y) % U64Range

\* ------------------------------------------- the checkpoint-chain reduction
\* The entries res written from the start of the buffer data; what lies
\* behind them stays as it was.
WriteBuf(data, res) ==
    [i \in 1..Len(data) |-> IF i <= Len(res) THEN res[i] ELSE data[i]]

\* What one __alloc_merge call of the loop read and wrote: the buffer read
\* (current), the buffer written (next) and its capacity, the entry counts
\* a_cnt and b_cnt passed in and the count returned.
MergeRecord(r, na, nb, nres) ==
    [src |-> r.current, dst |-> r.next, cap |-> r.heap[r.next].cap,
     na |-> na, nb |-> nb, nres |-> nres]

\* MergeStep that does not swap the buffers: the next merge writes the buffer
\* it reads.
MergeStep_NoSwap(r, ckpt, stop_name) ==
    LET cur == IF r.current = NULL THEN <<>>
               ELSE SubSeq(r.heap[r.current].data, 1, r.total)
        res == alloc_merge(cur, ckpt.alloc_list)
    IN  [r EXCEPT !.stop = @ \/ (ckpt.name = stop_name),
                  !.total = Len(res),
                  !.heap[r.next].data = WriteBuf(@, res),
                  !.ub = @ \/ (Len(res) > r.heap[r.next].cap),
                  !.current = r.next,
                  !.log = Append(@, MergeRecord(r, Len(cur), Len(ckpt.alloc_list), Len(res)))]

\* One __alloc_merge call of the loop: the running union in current is merged
\* with the checkpoint's list into next, and the two buffers swap roles.
MergeStep(r, ckpt, stop_name) ==
    LET cur == IF r.current = NULL THEN <<>>
               ELSE SubSeq(r.heap[r.current].data, 1, r.total)
        res == alloc_merge(cur, ckpt.alloc_list)
    IN  [r EXCEPT !.stop = @ \/ (ckpt.name = stop_name),
                  !.total = Len(res),
                  !.heap[r.next].data = WriteBuf(@, res),
                  !.ub = @ \/ (Len(res) > r.heap[r.next].cap),
                  !.current = r.next,
                  !.next = IF r.next = r.a THEN r.b ELSE r.a,
                  !.log = Append(@, MergeRecord(r, Len(cur), Len(ckpt.alloc_list), Len(res)))]

\* MergeCkpts without the continue: the start checkpoint's list is merged too.
RECURSIVE MergeCkpts_FoldsStart(_, _, _, _, _)
MergeCkpts_FoldsStart(chain, i, r, start_name, stop_name) ==
    IF i > Len(chain) THEN r
    ELSE
        LET r0 == IF chain[i].name = start_name THEN [r EXCEPT !.start = TRUE] ELSE r
            r1 == IF r0.start THEN MergeStep(r0, chain[i], stop_name) ELSE r0
        IN  IF r1.stop THEN r1
            ELSE MergeCkpts_FoldsStart(chain, i + 1, r1, start_name, stop_name)

\* MergeCkpts looking for the stop checkpoint before the start one was seen.
RECURSIVE MergeCkpts_StopAnywhere(_, _, _, _, _)
MergeCkpts_StopAnywhere(chain, i, r, start_name, stop_name) ==
    IF i > Len(chain) THEN r
    ELSE IF chain[i].name = start_name
    THEN MergeCkpts_StopAnywhere(chain, i + 1, [r EXCEPT !.start = TRUE], start_name, stop_name)
    ELSE
        LET r1 == IF r.start THEN MergeStep(r, chain[i], stop_name)
                  ELSE [r EXCEPT !.stop = @ \/ (chain[i].name = stop_name)]
        IN  IF r1.stop THEN r1
            ELSE MergeCkpts_StopAnywhere(chain, i + 1, r1, start_name, stop_name)

\* The second WT_CKPT_FOREACH loop of __curbackup_incr_next, from checkpoint i
\* on. r holds the locals start, stop, total, current, next, a, b and the heap.
RECURSIVE MergeCkpts(_, _, _, _, _)
MergeCkpts(chain, i, r, start_name, stop_name) ==
    IF i > Len(chain) THEN r
    ELSE IF chain[i].name = start_name
    THEN MergeCkpts(chain, i + 1, [r EXCEPT !.start = TRUE], start_name, stop_name)
    ELSE
        LET r1 == IF r.start THEN MergeStep(r, chain[i], stop_name) ELSE r
        IN  IF r1.stop THEN r1
            ELSE MergeCkpts(chain, i + 1, r1, start_name, stop_name)

\* The first WT_CKPT_FOREACH loop: entries += ckpt->alloc_list_entries.
RECURSIVE CountEntries(_, _)
CountEntries(chain, i) ==
    IF i > Len(chain) THEN 0 ELSE Len(chain[i].alloc_list) + CountEntries(chain, i + 1)

\* ------------------------------------------------------ cursor->next
\* ErrLabel leaving b allocated.
ErrLabel_KeepsB(s, la, lb, got, raw) ==
    [s EXCEPT !.heap = wt_free(@, la),
              !.ckpt_live = IF got THEN @ - 1 ELSE @,
              !.cursor.raw = @ \/ raw]

\* The err: label: free a and b, free the checkpoint list, put RAW back.
\* s is the state reached, la and lb the locals a and b, got whether ckptbase
\* is set, raw the flag saved on entry.
ErrLabel(s, la, lb, got, raw) ==
    [s EXCEPT !.heap = wt_free(wt_free(@, la), lb),
              !.ckpt_live = IF got THEN @ - 1 ELSE @,
              !.cursor.raw = @ \/ raw]

\* The state a call starts from, after F_CLR(cursor, WT_CURSTD_RAW).
Entry ==
    [cb |-> cb, cursor |-> [cursor EXCEPT !.raw = FALSE], heap |-> heap,
     ckpt_live |-> ckpt_live, ub |-> ub]

\* What a call reports of itself: the branch taken, the value returned, the
\* buffers a and b it allocated, what __wt_meta_ckptlist_get returned ("NONE"
\* when it was not called), the size __wt_fs_size reported (0 when it did not),
\* the checkpoint the error message names, the RAW flag found on entry, the
\* __alloc_merge calls made.
CallInfo(path, ret, la, lb, meta_ret, size, fault, msg) ==
    [ncalls |-> last.ncalls + 1,
     nfaults |-> last.nfaults + (IF fault THEN 1 ELSE 0),
     init_at |-> IF last.init_at = 0 /\ ret = "OK" /\ path # "initialized"
                 THEN last.ncalls + 1 ELSE last.init_at,
     path |-> path, ret |-> ret, a |-> la, b |-> lb,
     meta_ret |-> meta_ret, size |-> size, msg |-> msg, raw_in |-> cursor.raw,
     merges |-> <<>>]

Commit(s, info, chain) ==
    /\ info.nfaults <= MaxFaults
    /\ ckptlist' = chain
    /\ cb' = s.cb
    /\ cursor' = s.cursor
    /\ heap' = s.heap
    /\ ckpt_live' = s.ckpt_live
    /\ ub' = s.ub
    /\ last' = info
    /\ UNCHANGED <<closed, ma, mb, mres, mdone>>

\* NextChunk that shrinks the entry without moving its start.
NextChunk_KeepsStart(e, g) == [off |-> e.off, len |-> e.len - g, kind |-> WT_BACKUP_RANGE]

\* The entry after the next chunk of it was taken: the offset moves on by the
\* granularity, the length shrinks by it, the kind is RANGE.
NextChunk(e, g) == [off |-> e.off + g, len |-> e.len - g, kind |-> WT_BACKUP_RANGE]

\* if (cb->incr_init): the cursor already has its list. oob is what a read
\* outside the buffer yields.
NextInitialized(oob) ==
    /\ cb.incr_init
    /\ LET s == Entry
           i == (cb.incr_list_offset \div WT_BACKUP_INCR_COMPONENTS) + 1
           inside == cb.incr_list # NULL /\ i <= heap[cb.incr_list].cap
           len == IF inside THEN heap[cb.incr_list].data[i].len ELSE oob
           ok == CallInfo("initialized", "OK", NULL, NULL, "NONE", 0, FALSE, "")
       IN  IF cb.incr_list_offset >= U64Sub(cb.incr_list_count, WT_BACKUP_INCR_COMPONENTS)
           THEN \* return (WT_NOTFOUND), past the err: label
                Commit(s, CallInfo("initialized", "WT_NOTFOUND", NULL, NULL, "NONE", 0, FALSE, ""),
                       ckptlist)
           ELSE IF len <= cb.incr_granularity
           THEN Commit(ErrLabel([s EXCEPT !.ub = @ \/ ~inside,
                                          !.cb.incr_list_offset = @ + WT_BACKUP_INCR_COMPONENTS],
                                NULL, NULL, FALSE, cursor.raw), ok, ckptlist)
           ELSE Commit(ErrLabel(IF inside
                                THEN [s EXCEPT !.heap[cb.incr_list].data[i] =
                                         NextChunk(@, cb.incr_granularity)]
                                ELSE [s EXCEPT !.ub = TRUE],
                                NULL, NULL, FALSE, cursor.raw), ok, ckptlist)

\* FullCopyInit counting entries, not uint64_t components.
FullCopyInit_CountsEntries(s, size) ==
    [s EXCEPT !.cb.incr_list_count = 1,
              !.cb.incr_init = TRUE,
              !.cb.incr_list_offset = 0,
              !.cursor.key = <<0, size, WT_BACKUP_FILE>>]

\* The full file copy once the size is known: one FILE entry, no list.
FullCopyInit(s, size) ==
    [s EXCEPT !.cb.incr_list_count = WT_BACKUP_INCR_COMPONENTS,
              !.cb.incr_init = TRUE,
              !.cb.incr_list_offset = 0,
              !.cursor.key = <<0, size, WT_BACKUP_FILE>>]

\* FullCopyFail with the cursor marked initialized before the size is asked for.
FullCopyFail_InitFirst(s) ==
    [s EXCEPT !.cb.incr_list_count = WT_BACKUP_INCR_COMPONENTS,
              !.cb.incr_init = TRUE,
              !.cb.incr_list_offset = 0]

\* WT_ERR(__wt_fs_size(...)) failing: the jump to err: comes before any
\* assignment to the cursor.
FullCopyFail(s) == s

\* else if (btree == NULL || F_ISSET(cb, WT_CURBACKUP_FORCE_FULL)): a full
\* file copy. size_ret is what __wt_fs_size returns, size the size it reports.
NextFullCopy(size_ret, size) ==
    /\ ~cb.incr_init
    /\ ~cb.incr_cursor \/ cb.force_full
    /\ LET s == Entry
       IN  IF size_ret # "OK"
           THEN Commit(ErrLabel(FullCopyFail(s), NULL, NULL, FALSE, cursor.raw),
                       CallInfo("full", size_ret, NULL, NULL, "NONE", 0, TRUE, ""), ckptlist)
           ELSE Commit(ErrLabel(FullCopyInit(s, size), NULL, NULL, FALSE, cursor.raw),
                       CallInfo("full", "OK", NULL, NULL, "NONE", size, FALSE, ""), ckptlist)

\* MetaErr passing on what the metadata returned.
MetaErr_AsIs(meta_ret) == meta_ret

\* WT_ERR(ret == WT_NOTFOUND ? ENOENT : ret) on what __wt_meta_ckptlist_get returned
MetaErr(meta_ret) == IF meta_ret = "WT_NOTFOUND" THEN "ENOENT" ELSE meta_ret

\* else: the incremental path. meta_ret is what __wt_meta_ckptlist_get
\* returns and chain the checkpoint list it hands out, a_ok and b_ok whether
\* the two __wt_calloc_def succeed, scr_ok whether __wt_scr_alloc does.
NextIncremental(meta_ret, chain, a_ok, b_ok, scr_ok) ==
    /\ ~cb.incr_init
    /\ cb.incr_cursor /\ ~cb.force_full
    /\ LET s == Entry
           raw == cursor.raw
           entries == CountEntries(chain, 1)
           la == Len(heap) + 1
           lb == Len(heap) + 2
           s0 == [s EXCEPT !.ckpt_live = @ + 1]
           sa == [s0 EXCEPT !.heap = Append(@, NewBuf(entries))]
           sb == [sa EXCEPT !.heap = Append(@, NewBuf(entries))]
           r == MergeCkpts(chain, 1,
                    [start |-> FALSE, stop |-> FALSE, total |-> 0, current |-> NULL,
                     next |-> la, a |-> la, b |-> lb, heap |-> sb.heap, ub |-> sb.ub,
                     log |-> <<>>],
                    cb.incr_start, cb.incr_stop)
           sr == [sb EXCEPT !.heap = r.heap, !.ub = r.ub]
           keep == IF r.next = la THEN lb ELSE la
           st == [sr EXCEPT !.cb.incr_list = keep,
                            !.cb.incr_list_count = r.total,
                            !.cb.incr_list_offset = 0]
           fa == IF r.next = la THEN la ELSE NULL
           fb == IF r.next = la THEN NULL ELSE lb
           merged(info) == [info EXCEPT !.merges = r.log]
       IN  IF meta_ret # "OK"
           THEN Commit(ErrLabel(s, NULL, NULL, FALSE, raw),
                       CallInfo("incremental", MetaErr(meta_ret),
                                NULL, NULL, meta_ret, 0, TRUE, ""), ckptlist)
           ELSE IF ~a_ok
           THEN Commit(ErrLabel(s0, NULL, NULL, TRUE, raw),
                       CallInfo("incremental", "ENOMEM", NULL, NULL, "OK", 0, TRUE, ""), chain)
           ELSE IF ~b_ok
           THEN Commit(ErrLabel(sa, la, NULL, TRUE, raw),
                       CallInfo("incremental", "ENOMEM", la, NULL, "OK", 0, TRUE, ""), chain)
           ELSE IF ~r.start
           THEN Commit(ErrLabel(sr, la, lb, TRUE, raw),
                       merged(CallInfo("incremental", "ENOENT", la, lb, "OK", 0, FALSE, "start")),
                       chain)
           ELSE IF ~r.stop
           THEN Commit(ErrLabel(sr, la, lb, TRUE, raw),
                       merged(CallInfo("incremental", "ENOENT", la, lb, "OK", 0, FALSE, "stop")),
                       chain)
           ELSE IF r.total = 0
           THEN Commit(ErrLabel(sr, la, lb, TRUE, raw),
                       merged(CallInfo("incremental", "WT_NOTFOUND", la, lb, "OK", 0, FALSE, "")),
                       chain)
           ELSE IF ~scr_ok
           THEN Commit(ErrLabel(st, fa, fb, TRUE, raw),
                       merged(CallInfo("incremental", "ENOMEM", la, lb, "OK", 0, TRUE, "")),
                       chain)
           ELSE Commit(ErrLabel([st EXCEPT !.cb.incr_block = TRUE,
                                           !.cb.incr_init = TRUE,
                                           !.cursor.ext = TRUE],
                                fa, fb, TRUE, raw),
                       merged(CallInfo("incremental", "OK", la, lb, "OK", 0, FALSE, "")),
                       chain)

\* The checkpoint lists of the file: checkpoint i is named i, so names are
\* unique; each carries a sorted, non-overlapping allocation list.
Chains ==
    LET ckpts == {[name |-> 0, alloc_list |-> l] : l \in SortedLists(CkptMaxPos, MaxChainEntries)}
        named(c) == [i \in 1..Len(c) |-> [c[i] EXCEPT !.name = i]]
        all == UNION {[1..n -> ckpts] : n \in 1..MaxCkpts}
    IN  {named(c) : c \in {d \in all : CountEntries(d, 1) <= MaxChainEntries}}

\* __curbackup_incr_next. The checkpoint list of the file does not change
\* between two calls.
curbackup_incr_next ==
    /\ ~closed
    /\ last.ncalls < MaxCalls
    /\ \/ \E oob \in {0, cb.incr_granularity + 1} : NextInitialized(oob)
       \/ \E size_ret \in {"OK", "EIO"}, size \in 1..MaxFileSize : NextFullCopy(size_ret, size)
       \/ \E meta_ret \in {"OK", "WT_NOTFOUND", "EIO"}, a_ok, b_ok, scr_ok \in BOOLEAN :
            \E chain \in IF ckptlist = <<>> THEN Chains ELSE {ckptlist} :
              NextIncremental(meta_ret, chain, a_ok, b_ok, scr_ok)

\* __wt_curbackup_free_incr
curbackup_free_incr ==
    /\ ~closed
    /\ closed' = TRUE
    /\ cb' = [cb EXCEPT !.incr_file = FALSE, !.incr_cursor = FALSE,
                        !.incr_list = NULL, !.incr_block = FALSE]
    /\ heap' = wt_free(heap, cb.incr_list)
    /\ UNCHANGED <<ckptlist, cursor, ckpt_live, ub, last, ma, mb, mres, mdone>>

\* ------------------------------------------------------------ the cursor
\* The cursor as __wt_curbackup_open_incr leaves it: either forced to a full
\* copy (no cursor on the file), or a file that gets no cursor on it, or an
\* incremental cursor with one. A name above MaxCkpts is in no checkpoint list.
Init ==
    /\ ma = <<>> /\ mb = <<>> /\ mres = <<>> /\ mdone = FALSE
    /\ ckptlist = <<>>
    /\ \E g \in 1..MaxGran, mode \in {"force", "nocursor", "incremental"},
          sn, en \in 1..(MaxCkpts + 1) :
          cb = [incr_init |-> FALSE, incr_list |-> NULL, incr_list_count |-> 0,
                incr_list_offset |-> 0, incr_granularity |-> g,
                incr_cursor |-> (mode = "incremental"), force_full |-> (mode = "force"),
                incr_start |-> sn, incr_stop |-> en, incr_block |-> FALSE,
                incr_file |-> TRUE]
    /\ \E raw \in BOOLEAN : cursor = [key |-> <<>>, raw |-> raw, ext |-> FALSE]
    /\ heap = <<>>
    /\ ckpt_live = 0
    /\ ub = FALSE
    /\ closed = FALSE
    /\ last = [ncalls |-> 0, nfaults |-> 0, init_at |-> 0, path |-> "none", ret |-> "OK",
               a |-> NULL, b |-> NULL, meta_ret |-> "NONE", size |-> 0, msg |-> "", raw_in |-> FALSE,
               merges |-> <<>>]

Next == curbackup_incr_next \/ curbackup_free_incr

Spec == Init /\ [][Next]_vars

\* ------------------------------------------------------------ the claims
\* bytes covered by an interval list
Covered(s) == UNION {e.off..(e.off + e.len - 1) : e \in {s[i] : i \in 1..Len(s)}}

\* C1: the bytes covered by merge(a,b) are exactly the bytes covered by a or b.
C1_MergeCoversUnion == mdone => Covered(mres) = Covered(ma) \cup Covered(mb)

\* C2: the output of merge(a,b) is strictly ascending, no two consecutive
\* entries overlap or touch.
C2_MergeSortedDisjoint ==
    mdone => \A i \in 1..(Len(mres) - 1) : mres[i].off + mres[i].len < mres[i + 1].off

\* The place of the checkpoint called name in the checkpoint list, 0 if none.
PosOf(name) ==
    IF \E i \in 1..Len(ckptlist) : ckptlist[i].name = name
    THEN CHOOSE i \in 1..Len(ckptlist) : ckptlist[i].name = name
    ELSE 0

\* The merges of the allocation lists of the checkpoints lo..hi, left to right.
RECURSIVE FoldLists(_, _)
FoldLists(lo, hi) ==
    IF lo > hi THEN <<>> ELSE alloc_merge(FoldLists(lo, hi - 1), ckptlist[hi].alloc_list)

\* The union list of the checkpoints after start up to stop.
Union == FoldLists(PosOf(cb.incr_start) + 1, PosOf(cb.incr_stop))

\* The latest call got as far as the merge loop.
ReductionRan == last.path = "incremental" /\ last.a # NULL /\ last.b # NULL

\* start_name is in the checkpoint list and stop_name is behind it.
StartThenStop == PosOf(cb.incr_start) > 0 /\ PosOf(cb.incr_stop) > PosOf(cb.incr_start)

\* C3: when the reduction runs over a checkpoint list holding start_name and,
\* behind it, stop_name, the union list it leaves is the fold of the allocation
\* lists of the checkpoints after start up to and including stop, and of no other.
C3_FoldsStartToStop ==
    (~closed /\ ReductionRan /\ StartThenStop) =>
        /\ (last.ret = "WT_NOTFOUND") = (Union = <<>>)
        /\ Union # <<>> =>
              /\ cb.incr_list \in {last.a, last.b}
              /\ cb.incr_list_count = Len(Union)
              /\ SubSeq(heap[cb.incr_list].data, 1, Len(Union)) = Union

\* C3 witness: start is the first of three checkpoints, stop the third, and
\* both checkpoints folded have allocations.
C3_Witness ==
    /\ ~closed /\ ReductionRan /\ last.ret = "OK"
    /\ Len(ckptlist) = 3 /\ PosOf(cb.incr_start) = 1 /\ PosOf(cb.incr_stop) = 3
    /\ ckptlist[2].alloc_list # <<>> /\ ckptlist[3].alloc_list # <<>>

\* The cursor holds a union list.
RangeListInit == ~closed /\ cb.incr_init /\ cb.incr_list # NULL

\* The calls made since the list was computed, the computing call included.
CallsSinceInit == last.ncalls - last.init_at + 1

\* C4: with every entry of the union list no longer than the granularity, the
\* k-th call (k <= n) succeeds and returns the k-th entry, the (n+1)-th
\* returns WT_NOTFOUND.
C4_VerbatimThenExhausted ==
    (RangeListInit /\ \A i \in 1..Len(Union) : Union[i].len <= cb.incr_granularity) =>
        /\ CallsSinceInit <= Len(Union) =>
              /\ last.ret = "OK"
              /\ cursor.key = <<Union[CallsSinceInit].off, Union[CallsSinceInit].len,
                                WT_BACKUP_RANGE>>
        /\ CallsSinceInit = Len(Union) + 1 => last.ret = "WT_NOTFOUND"

\* The entry of the list the cursor stands on.
CurIdx == (cb.incr_list_offset \div WT_BACKUP_INCR_COMPONENTS) + 1

Min(x, y) == IF x <= y THEN x ELSE y

\* C5: while the cursor stands on an entry longer than the granularity, every
\* successful call returns the next piece of it: at most granularity bytes, a
\* whole number of granularities behind the entry's start, what is left of the
\* entry reaching to its end; and it is not left before its last piece.
C5_PaginationTiles ==
    (RangeListInit /\ CurIdx <= Len(Union) /\ Union[CurIdx].len > cb.incr_granularity) =>
        LET cur == heap[cb.incr_list].data[CurIdx]
            orig == Union[CurIdx]
        IN  /\ last.ret = "OK" =>
                  /\ cursor.key = <<cur.off, Min(cur.len, cb.incr_granularity), WT_BACKUP_RANGE>>
                  /\ cur.off >= orig.off /\ cur.len >= 1
                  /\ (cur.off - orig.off) % cb.incr_granularity = 0
                  /\ cur.off + cur.len = orig.off + orig.len
            /\ last.ret = "WT_NOTFOUND" => cur.len <= cb.incr_granularity

\* Every entry of the cursor's list, and every piece of each, has been returned.
AllEmitted ==
    IF cb.incr_list = NULL THEN TRUE
    ELSE /\ CurIdx >= Len(Union)
         /\ CurIdx = Len(Union) => heap[cb.incr_list].data[CurIdx].len <= cb.incr_granularity

\* C6: a call on an initialized cursor that has returned everything returns
\* WT_NOTFOUND and leaves the offset, the list and the key alone; a call on one
\* that has not does not return WT_NOTFOUND.
C6_ExhaustedForGood ==
    [][(cb.incr_init /\ last'.ncalls = last.ncalls + 1) =>
          /\ AllEmitted => /\ last'.ret = "WT_NOTFOUND"
                           /\ cb' = cb /\ heap' = heap /\ cursor'.key = cursor.key
          /\ last'.ret = "WT_NOTFOUND" => AllEmitted]_vars

\* The cursor copies whole files: forced to, or without a cursor on the file.
FullCopyMode == ~closed /\ (cb.force_full \/ ~cb.incr_cursor)

\* C7: a full-copy cursor never asks for the checkpoint list; the call that
\* gets the size S returns (0, S, FILE); every call after it returns
\* WT_NOTFOUND.
C7_FullCopyOnce ==
    (FullCopyMode /\ last.ncalls > 0) =>
        /\ last.meta_ret = "NONE" /\ ckptlist = <<>>
        /\ last.path = "full" /\ last.size > 0 =>
              /\ last.ret = "OK" /\ cb.incr_init
              /\ cursor.key = <<0, last.size, WT_BACKUP_FILE>>
        /\ cb.incr_init /\ last.ncalls > last.init_at =>
              /\ last.ret = "WT_NOTFOUND"
              /\ cursor.key[1] = 0 /\ cursor.key[3] = WT_BACKUP_FILE

\* C7 witness: the second call after the one that returned the file.
C7_Witness ==
    /\ FullCopyMode /\ cb.incr_init /\ last.ncalls = last.init_at + 2
    /\ last.ret = "WT_NOTFOUND"

\* A call of the incremental path has just run the merge loop.
ReductionStep == ~cb.incr_init /\ last'.ncalls = last.ncalls + 1 /\ ReductionRan'

\* C8: without a checkpoint called start_name the call fails with ENOENT
\* naming the start checkpoint; with it but without stop_name behind it, with
\* ENOENT naming the stop checkpoint; either way the cursor is as it was.
C8_MissingCheckpoint ==
    [][ReductionStep =>
          /\ PosOf(cb.incr_start)' = 0 =>
                last'.ret = "ENOENT" /\ last'.msg = "start" /\ cb' = cb
          /\ (PosOf(cb.incr_start)' > 0 /\ ~StartThenStop') =>
                last'.ret = "ENOENT" /\ last'.msg = "stop" /\ cb' = cb]_vars

\* C8 witness: stop_name is in the checkpoint list, but before start_name.
C8_Witness ==
    /\ ~closed /\ ReductionRan /\ last.ret = "ENOENT" /\ last.msg = "stop"
    /\ PosOf(cb.incr_stop) > 0 /\ PosOf(cb.incr_stop) < PosOf(cb.incr_start)

\* C9: with start and stop found and nothing in the union the call returns
\* WT_NOTFOUND and the cursor is as it was; the incremental path returns
\* WT_NOTFOUND for nothing else: a missing checkpoint or a checkpoint list the
\* metadata does not find is ENOENT.
C9_NoDataIsNotAnError ==
    [][(~cb.incr_init /\ last'.ncalls = last.ncalls + 1 /\ last'.path = "incremental") =>
          /\ (ReductionRan' /\ StartThenStop' /\ Union' = <<>>) =>
                last'.ret = "WT_NOTFOUND" /\ cb' = cb
          /\ last'.ret = "WT_NOTFOUND" =>
                ReductionRan' /\ StartThenStop' /\ Union' = <<>> /\ last'.meta_ret = "OK"
          /\ last'.meta_ret = "WT_NOTFOUND" => last'.ret = "ENOENT"
          /\ last'.msg # "" => last'.ret = "ENOENT"]_vars

\* C9 witness: nothing to copy between start and stop although the start
\* checkpoint itself has allocations.
C9_Witness ==
    /\ ~closed /\ ReductionRan /\ last.ret = "WT_NOTFOUND" /\ StartThenStop
    /\ ckptlist[PosOf(cb.incr_start)].alloc_list # <<>>
    /\ ~cb.incr_init /\ cb.incr_list = NULL

\* C10: when a call of the incremental path returns, the checkpoint list it
\* got is freed, and each of the buffers a and b it allocated is either the
\* cursor's list and not freed, or freed once; after a missing checkpoint or
\* an empty union both are freed.
C10_ScratchReleased ==
    (~closed /\ last.path = "incremental") =>
        /\ ckpt_live = 0
        /\ \A p \in {last.a, last.b} \ {NULL} :
              heap[p].frees = IF cb.incr_list = p THEN 0 ELSE 1
        /\ (last.ret \in {"ENOENT", "WT_NOTFOUND"} /\ last.meta_ret = "OK") =>
              /\ last.a # NULL /\ last.b # NULL
              /\ heap[last.a].frees = 1 /\ heap[last.b].frees = 1
              /\ cb.incr_list \notin {last.a, last.b}

\* C10 witness: the stop checkpoint was missing, both buffers were allocated.
C10_Witness ==
    /\ ~closed /\ ReductionRan /\ last.ret = "ENOENT" /\ last.msg = "stop"
    /\ heap[last.a].frees = 1 /\ heap[last.b].frees = 1

\* C11: after the teardown nothing the cursor acquired is left: no list, no
\* cursor on the file, no scratch buffer, no file name, and every buffer a
\* call allocated has been freed.
C11_CloseReleasesAll ==
    closed =>
        /\ cb.incr_list = NULL /\ ~cb.incr_cursor /\ ~cb.incr_block /\ ~cb.incr_file
        /\ ckpt_live = 0
        /\ \A p \in DOMAIN heap : heap[p].frees >= 1

\* C12: merge(a,b) and merge(b,a) cover the same bytes.
C12_MergeCommutes == mdone => Covered(mres) = Covered(alloc_merge(mb, ma))

\* No two entries of the list overlap or touch.
NonTouching(s) == \A i \in 1..(Len(s) - 1) : s[i].off + s[i].len < s[i + 1].off

\* C13: merging a sorted, non-touching list with itself gives the list back,
\* entry for entry, each tagged RANGE.
C13_MergeWithSelf ==
    (mdone /\ ma = mb /\ NonTouching(ma)) =>
        /\ Len(mres) = Len(ma)
        /\ \A i \in 1..Len(ma) : mres[i] = RangeEntry(ma[i].off, ma[i].len)

\* C13 witness: a list of two intervals with a gap was merged with itself.
C13_Witness ==
    /\ mdone /\ ma = mb /\ NonTouching(ma) /\ Len(ma) >= 2
    /\ Len(mres) = Len(ma)

\* C14: every __alloc_merge call of the reduction writes at most
\* len(a) + len(b) entries and no more than the destination buffer holds,
\* which is the sum of the entry counts of all checkpoints of the list; the
\* buffer it writes is never the one it reads, each call reads what the call
\* before it wrote, and the buffer the cursor is given is the one the last
\* call wrote.
C14_MergeBuffers ==
    LET m == last.merges
    IN  /\ \A k \in 1..Len(m) :
              /\ m[k].nres <= m[k].na + m[k].nb
              /\ m[k].nres <= m[k].cap
              /\ m[k].cap = CountEntries(ckptlist, 1)
              /\ m[k].dst # m[k].src
              /\ m[k].dst # NULL
              /\ k > 1 => /\ m[k].src = m[k - 1].dst
                          /\ m[k].na = m[k - 1].nres
        /\ (~closed /\ last.path = "incremental" /\ last.ret \in {"OK", "ENOMEM"} /\ m # <<>>)
              => cb.incr_list = m[Len(m)].dst

C14_Witness ==
    /\ ~closed /\ last.path = "incremental" /\ last.ret = "OK"
    /\ Len(last.merges) = 2
    /\ last.merges[2].na >= 1 /\ last.merges[2].nb >= 1
    /\ cb.incr_list = last.merges[2].dst

\* Ascending, no entry reaching into the next.
NonOverlapping(s) == \A i \in 1..(Len(s) - 1) : s[i].off + s[i].len <= s[i + 1].off

\* C15: in every state of a cursor holding a union list, computed from
\* checkpoints whose allocation lists are sorted and non-overlapping, the
\* entries of the stored list from the current offset to its end are ascending
\* with a gap between each entry and the next.
C15_StoredListNonTouching ==
    (RangeListInit /\ \A k \in 1..Len(ckptlist) : NonOverlapping(ckptlist[k].alloc_list)) =>
        \A i \in CurIdx..(cb.incr_list_count - 1) :
            LET d == heap[cb.incr_list].data
            IN  i + 1 <= Len(d) => d[i].off + d[i].len < d[i + 1].off

\* C16: a call on an initialized cursor calls neither __wt_meta_ckptlist_get
\* nor __wt_fs_size, leaves the cursor initialized, and changes nothing of the
\* cursor but either the list offset, stepped to the next entry, or the
\* current entry of the list, whose offset grows and whose length shrinks by
\* the granularity, and only when it is longer than the granularity: the flags,
\* the key, the other entries, the count, the granularity and the start and
\* stop names stay, and nothing outside the list is touched.
C16_InitializedCallFrame ==
    [][(~closed /\ cb.incr_init /\ last'.ncalls = last.ncalls + 1) =>
          LET g == cb.incr_granularity
              l == cb.incr_list
          IN  /\ last'.path = "initialized"
              /\ last'.meta_ret = "NONE" /\ last'.size = 0
              /\ cb'.incr_init
              /\ cursor' = cursor
              /\ ub' = ub
              /\ ckpt_live' = ckpt_live
              /\ \/ cb' = cb /\ heap' = heap
                 \/ /\ cb' = [cb EXCEPT !.incr_list_offset = @ + WT_BACKUP_INCR_COMPONENTS]
                    /\ heap' = heap
                 \/ /\ cb' = cb
                    /\ l # NULL /\ CurIdx <= Len(heap[l].data)
                    /\ heap[l].data[CurIdx].len > g
                    /\ heap' = [heap EXCEPT ![l].data[CurIdx] =
                                   [off |-> @.off + g, len |-> @.len - g,
                                    kind |-> WT_BACKUP_RANGE]]]_vars

\* C17: when __wt_fs_size fails on the full-copy path, the call returns that
\* error as it is, sets no key and leaves incr_init, the list count and the
\* list offset as they were; the next call asks for the size again and does
\* not return WT_NOTFOUND for exhaustion.
C17_SizeFailureRetries ==
    [][/\ (~closed /\ last'.ncalls = last.ncalls + 1 /\ last'.path = "full"
              /\ last'.ret # "OK") =>
              /\ last'.ret = "EIO"
              /\ cursor' = cursor
              /\ cb' = cb /\ ~cb'.incr_init
       /\ (~closed /\ last.path = "full" /\ last.ret # "OK"
              /\ last'.ncalls = last.ncalls + 1) =>
              /\ last'.path = "full"
              /\ last'.ret = "OK" => /\ cb'.incr_init
                                     /\ cursor'.key = <<0, last'.size, WT_BACKUP_FILE>>]_vars

\* C17 witness: the size query failed on the first call and the second call
\* returned the whole file.
C17_Witness ==
    /\ FullCopyMode /\ last.ncalls = 2 /\ last.nfaults = 1
    /\ last.path = "full" /\ last.ret = "OK" /\ cb.incr_init

\* C18: on a cursor holding a union list of n >= 1 entries, the exhaustion
\* test incr_list_offset >= incr_list_count - 3 does not wrap below zero,
\* every call that gets past it reads and writes an entry the reduction wrote,
\* nothing outside the list is accessed, and the offset never runs past the
\* last entry.
C18_AccessesInsideList ==
    [][(RangeListInit /\ last'.ncalls = last.ncalls + 1) =>
          /\ cb.incr_list_count >= WT_BACKUP_INCR_COMPONENTS
          /\ last'.ret = "OK" => CurIdx <= Len(Union)
          /\ cb'.incr_list_offset <= WT_BACKUP_INCR_COMPONENTS * Len(Union)
          /\ ~ub']_vars

\* C19: every call leaves the cursor's RAW flag as it found it.
C19_RawRestored ==
    [][(~closed /\ last'.ncalls = last.ncalls + 1) => cursor'.raw = cursor.raw]_vars

\* C20: incr_list is never given a new value while it points to a buffer that
\* was not freed, and no buffer is freed twice, whatever calls fail and are
\* made again before the cursor is closed.
C20_ListFreedOnce ==
    [][/\ (cb.incr_list # NULL /\ cb'.incr_list # cb.incr_list) =>
              heap'[cb.incr_list].frees = 1
       /\ \A p \in DOMAIN heap' : heap'[p].frees <= 1]_vars
====
